---- MODULE Spec2Model ----
(***************************************************************************)
(* Model of the svg-anim-compiler infrastructure: the open-addressing hash *)
(* map of ctrs/map.h, the virtual-memory arena of common/arena.h and the   *)
(* Manim frontend of frontends/manim_fe.c.                                 *)
(*                                                                         *)
(* Fixed-width integers.  A uint32_t value x is represented by the integer *)
(* of [-2^31, 2^31) congruent to x modulo 2^32 (0xFFFFFFFF is -1); all     *)
(* arithmetic on it goes through the operators below, which compute on     *)
(* 16-bit halves so that every result is exact modulo 2^32.                *)
(* A size_t value is represented the same way modulo 2^64: the values in   *)
(* use lie within 2^31 of 0 or of 2^64, so a negative integer r stands for *)
(* 2^64 + r (SIZE_MAX is -1) and integer addition and subtraction are the  *)
(* machine's, exact modulo 2^64.                                           *)
(***************************************************************************)
EXTENDS Integers, Sequences, FiniteSets

(***************************************************************************)
(* uint32_t arithmetic                                                     *)
(***************************************************************************)
Lo16(x) == x % 65536

Hi16(x) == (x \div 65536) % 65536

U32(hi, lo) ==
  IF hi >= 32768 THEN (hi - 65536) * 65536 + lo ELSE hi * 65536 + lo

RECURSIVE Xor16(_, _, _)
Xor16(a, b, n) ==
  IF n = 0 THEN 0
  ELSE ((a + b) % 2) + 2 * Xor16(a \div 2, b \div 2, n - 1)

\* a ^ b on uint32_t
Xor32(a, b) ==
  U32(Xor16(Hi16(a), Hi16(b), 16), Xor16(Lo16(a), Lo16(b), 16))

\* a >> 16 and a >> 15 on uint32_t (logical shifts)
Shr16(a) == Hi16(a)

Shr15(a) == Hi16(a) * 2 + (Lo16(a) \div 32768)

\* the low 16 bits of x * y, for 16-bit x and y
Mul16Lo(x, y) ==
  (x * (y % 256) + ((x * (y \div 256)) % 256) * 256) % 65536

\* a * b on uint32_t (modulo 2^32)
Mul32(a, b) ==
  LET al == Lo16(a)
      ah == Hi16(a)
      bl == Lo16(b)
      bh == Hi16(b)
      p0 == al * (bl % 256)
      p1 == al * (bl \div 256)
      t  == p0 + (p1 % 256) * 256
      carry == (t \div 65536) + (p1 \div 256)
      cross == Mul16Lo(ah, bl) + Mul16Lo(al, bh)
  IN  U32((carry + cross) % 65536, t % 65536)

\* a + b on uint32_t (modulo 2^32)
Add32(a, b) ==
  LET lo == Lo16(a) + Lo16(b)
      hi == Hi16(a) + Hi16(b) + (lo \div 65536)
  IN  U32(hi % 65536, lo % 65536)

\* the value of uint32_t a converted to size_t and divided by the size_t d,
\* for d a power of two that divides 65536
UDiv32(a, d) ==
  IF a >= 0 THEN a \div d ELSE 65536 * (65536 \div d) + (a \div d)

\* the value of uint32_t a converted to size_t, modulo the size_t d (d as above)
UMod32(a, d) == a % d

(***************************************************************************)
(* ctrs/map.h                                                              *)
(***************************************************************************)
MAP_START_SIZE == 64

MAP_MAX_LOAD == 60

\* UINT32_MAX
MAP_EMPTY_KEY == U32(65535, 65535)

HashMul1 == U32(32747, 13613)

HashMul2 == U32(33900, 42635)

_map_hash_u32(key) ==
  LET k1 == Xor32(key, Shr16(key))
      k2 == Mul32(k1, HashMul1)
      k3 == Xor32(k2, Shr15(k2))
      k4 == Mul32(k3, HashMul2)
  IN  Xor32(k4, Shr16(k4))

\* The keys of the workloads below.  42 is the key of map_test_basic and
\* 351 hashes to the same bucket as 42 at table sizes 64 and 128.  FillKeys
\* holds one key per bucket of the 64-bucket table: first the keys of the
\* buckets 0, 1, 5, ..., 63, which the probe sequences of 42 and 351 do not
\* reach, then 55, 23 and 94, the keys of the buckets 2 (that of 42 and
\* 351), 3 and 4.
Keys == {42, 351}

FillKeys ==
  << 1, 2, 44, 51, 15, 62, 28, 27, 36, 176, 39, 161, 22, 80, 4, 32,
     50, 54, 59, 48, 265, 18, 91, 78, 66, 167, 3, 63, 46, 88, 89, 170,
     26, 109, 17, 7, 70, 43, 25, 68, 9, 12, 75, 156, 16, 21, 13, 40,
     165, 41, 31, 100, 45, 123, 29, 8, 6, 38, 10, 5, 115, 55, 23, 94 >>

AllKeys == Keys \cup {FillKeys[i] : i \in 1..Len(FillKeys)}

\* _map_hash_u32 of every key in use, computed once
HashOf == [k \in AllKeys \cup {MAP_EMPTY_KEY} |-> _map_hash_u32(k)]

\* a & b on non-negative integers
RECURSIVE BitAnd(_, _)
BitAnd(a, b) ==
  IF a = 0 \/ b = 0 THEN 0
  ELSE (a % 2) * (b % 2) + 2 * BitAnd(a \div 2, b \div 2)

\* the data bytes of a bucket that were never written (aligned_alloc does
\* not initialise them): an indeterminate value, equal to no element
Indeterminate == "indeterminate"

\* the caller's out_element buffer when map_get did not copy into it
Untouched == "untouched"

EmptyBucket ==
  [key |-> MAP_EMPTY_KEY, state |-> "EMPTY", data |-> Indeterminate]

\* the table of a map whose aligned_alloc returned NULL: no bucket at all
NullTable == << >>

\* map->count is not assigned by map_create: it holds what malloc returned,
\* any uint32_t; cnt is that value.  alloc_ok: aligned_alloc gave a table.
\* Its result is stored unchecked, and the loop that follows writes the
\* buckets through it.
map_create(cnt, alloc_ok) ==
  [size  |-> MAP_START_SIZE,
   count |-> cnt,
   table |-> IF alloc_ok
               THEN [i \in 0..(MAP_START_SIZE - 1) |-> EmptyBucket]
               ELSE NullTable]

_load_ok(m) == UDiv32(Mul32(m.count, 100), m.size) < MAP_MAX_LOAD

RECURSIVE map_put(_, _, _, _)
RECURSIVE _map_resize(_, _)
RECURSIVE PutProbe(_, _, _, _, _)
RECURSIVE ResizeReinsert(_, _, _, _, _)

\* the probe loop of map_put, at bucket idx in iteration i
PutProbe(m, key, element, idx, i) ==
  LET bucket == m.table[idx] IN
  IF bucket.state = "OCCUPIED" /\ bucket.key = key
    THEN [map |-> [m EXCEPT !.table[idx].data = element], ret |-> 1,
          crashed |-> FALSE]
  ELSE IF bucket.key = MAP_EMPTY_KEY
    THEN [map |-> [m EXCEPT
                     !.table[idx] = [key |-> key, state |-> "OCCUPIED",
                                     data |-> element],
                     !.count = Add32(@, 1)],
          ret |-> 1, crashed |-> FALSE]
  ELSE IF i = m.size - 1
    THEN [map |-> m, ret |-> 0, crashed |-> FALSE]
  ELSE PutProbe(m, key, element, BitAnd(idx + 1, m.size - 1), i + 1)

\* alloc_ok: the aligned_alloc of a resize this call makes gives a table.
\* crashed: the call wrote through a NULL table and did not return (ret is
\* then the value it would have had to return to report the failure).
map_put(m, key, element, alloc_ok) ==
  LET r == IF ~_load_ok(m) THEN _map_resize(m, alloc_ok)
           ELSE [map |-> m, ret |-> 1, crashed |-> FALSE]
  IN  IF r.crashed
        THEN r
      ELSE IF r.ret = 0
        THEN [map |-> r.map, ret |-> 0, crashed |-> FALSE]
        ELSE PutProbe(r.map, key, element,
                      UMod32(HashOf[key], r.map.size), 0)

\* the second loop of _map_resize: re-put the buckets i.. of the old table
ResizeReinsert(m, old_table, old_map_size, i, alloc_ok) ==
  IF i = old_map_size THEN [map |-> m, ret |-> 1, crashed |-> FALSE]
  ELSE LET bucket == old_table[i] IN
       IF bucket.key # MAP_EMPTY_KEY
         THEN LET r == map_put(m, bucket.key, bucket.data, alloc_ok) IN
              IF r.crashed \/ r.ret = 0
                THEN [map |-> r.map, ret |-> 0, crashed |-> r.crashed]
              ELSE ResizeReinsert(r.map, old_table, old_map_size, i + 1,
                                  alloc_ok)
         ELSE ResizeReinsert(m, old_table, old_map_size, i + 1, alloc_ok)

\* _map_resize with a table of three times the length
_map_resize_Triples(m, alloc_ok) ==
  LET old_map_size == m.size
      new_map_size == old_map_size * 3
      fresh == [size  |-> new_map_size,
                count |-> 0,
                table |-> [i \in 0..(new_map_size - 1) |-> EmptyBucket]]
  IN  IF alloc_ok
        THEN ResizeReinsert(fresh, m.table, old_map_size, 0, alloc_ok)
        ELSE [map |-> [m EXCEPT !.size = new_map_size, !.table = NullTable],
              ret |-> 0, crashed |-> TRUE]

\* map->table and map->size are assigned before anything looks at what
\* aligned_alloc returned; the first loop then writes bucket 0 of the new
\* table
_map_resize(m, alloc_ok) ==
  LET old_map_size == m.size
      new_map_size == old_map_size * 2
      fresh == [size  |-> new_map_size,
                count |-> 0,
                table |-> [i \in 0..(new_map_size - 1) |-> EmptyBucket]]
  IN  IF alloc_ok
        THEN ResizeReinsert(fresh, m.table, old_map_size, 0, alloc_ok)
        ELSE [map |-> [m EXCEPT !.size = new_map_size, !.table = NullTable],
              ret |-> 0, crashed |-> TRUE]

\* The probe loop of map_get.  The loop has no bound of its own; n only
\* counts the buckets visited, to detect that the walk is back at its start
\* with nothing changed, from where it repeats for ever (hangs).
RECURSIVE GetProbe(_, _, _, _)
GetProbe(m, key, idx, n) ==
  LET bucket == m.table[idx] IN
  IF bucket.key = key
    THEN [ret |-> 1, out |-> bucket.data, hangs |-> FALSE]
  ELSE IF bucket.state = "EMPTY"
    THEN [ret |-> 0, out |-> Untouched, hangs |-> FALSE]
  ELSE IF n = m.size - 1
    THEN [ret |-> 0, out |-> Untouched, hangs |-> TRUE]
  ELSE GetProbe(m, key, BitAnd(idx + 1, m.size - 1), n + 1)

map_get(m, key) == GetProbe(m, key, UMod32(HashOf[key], m.size), 0)

\* map_remove's probe with the bucket marked EMPTY, not REMOVED
RECURSIVE RemoveProbe_MarksEmpty(_, _, _, _)
RemoveProbe_MarksEmpty(m, key, idx, i) ==
  LET bucket == m.table[idx] IN
  IF bucket.state = "EMPTY"
    THEN [map |-> m, ret |-> 0]
  ELSE IF bucket.state = "OCCUPIED" /\ bucket.key = key
    THEN [map |-> [m EXCEPT !.table[idx].key = MAP_EMPTY_KEY,
                            !.table[idx].state = "EMPTY",
                            !.count = Add32(@, -1)],
          ret |-> 1]
  ELSE IF i = m.size - 1
    THEN [map |-> m, ret |-> 0]
  ELSE RemoveProbe_MarksEmpty(m, key, BitAnd(idx + 1, m.size - 1), i + 1)

RECURSIVE RemoveProbe(_, _, _, _)
RemoveProbe(m, key, idx, i) ==
  LET bucket == m.table[idx] IN
  IF bucket.state = "EMPTY"
    THEN [map |-> m, ret |-> 0]
  ELSE IF bucket.state = "OCCUPIED" /\ bucket.key = key
    THEN [map |-> [m EXCEPT !.table[idx].key = MAP_EMPTY_KEY,
                            !.table[idx].state = "REMOVED",
                            !.count = Add32(@, -1)],
          ret |-> 1]
  ELSE IF i = m.size - 1
    THEN [map |-> m, ret |-> 0]
  ELSE RemoveProbe(m, key, BitAnd(idx + 1, m.size - 1), i + 1)

map_remove(m, key) ==
  RemoveProbe(m, key, UMod32(HashOf[key], m.size), 0)

(***************************************************************************)
(* common/arena.h                                                          *)
(***************************************************************************)
\* getpagesize()
PageSize == 4096

SIZE_MAX == 0 - 1

\* a < b and a <= b on size_t (unsigned)
ULt(a, b) == IF (a >= 0) = (b >= 0) THEN a < b ELSE b < 0

ULe(a, b) == a = b \/ ULt(a, b)

\* ALIGN_UP(value, alignment) on a size_t value below 2^31;
\* x & ~m is computed as x - (x & m)
ALIGN_UP(value, alignment) ==
  LET t == value + (alignment - 1) IN t - BitAnd(t, alignment - 1)

\* the NULL pointer, and the pointer base + off
NullPtr == [null |-> TRUE, off |-> 0]

BasePlus(off) == [null |-> FALSE, off |-> off]

\* no arena: arena_alloc_spec returned NULL, or the arena was released
NoArena(why) ==
  [status |-> why, base |-> "unmapped", capacity |-> 0, committed |-> 0,
   pos |-> 0, page_size |-> 0]

\* arena_alloc_spec; malloc_ok, mmap_ok and mprotect_ok are the outcomes of
\* the three system calls (mmap of a zero length fails)
arena_alloc_spec(virtual_upper_bound, malloc_ok, mmap_ok, mprotect_ok) ==
  LET page_size == PageSize
      capacity == ALIGN_UP(virtual_upper_bound, page_size)
  IN  IF ~malloc_ok THEN NoArena("null")
      ELSE IF capacity = 0 \/ ~mmap_ok THEN NoArena("null")
      ELSE IF ~mprotect_ok THEN NoArena("null")
      ELSE [status |-> "live", base |-> "mapped", capacity |-> capacity,
            committed |-> page_size, pos |-> 0, page_size |-> page_size]

\* arena_push; mprotect_ok is the outcome of the commit, if one is made
arena_push(arena, size, mprotect_ok) ==
  LET new_pos == arena.pos + size IN
  IF ULt(arena.capacity, new_pos)
    THEN [arena |-> arena, ptr |-> NullPtr]
  ELSE IF ULt(arena.committed, new_pos)
    THEN LET new_commit == ALIGN_UP(new_pos, arena.page_size) IN
         IF ~mprotect_ok
           THEN [arena |-> arena, ptr |-> NullPtr]
           ELSE [arena |-> [arena EXCEPT !.committed = new_commit,
                                         !.pos = new_pos],
                 ptr |-> BasePlus(arena.pos)]
  ELSE [arena |-> [arena EXCEPT !.pos = new_pos],
        ptr |-> BasePlus(arena.pos)]

\* arena_pop giving back the pages above the new position
arena_pop_Decommits(arena, size, ndebug) ==
  IF ~ndebug /\ ~ULe(size, arena.pos)
    THEN [arena |-> arena, aborted |-> TRUE]
    ELSE [arena |-> [arena EXCEPT
                       !.pos = arena.pos - size,
                       !.committed = IF arena.pos - size = 0
                                       THEN arena.page_size ELSE @],
          aborted |-> FALSE]

\* arena_pop; ndebug tells whether the build defines NDEBUG, which turns
\* assert(size <= arena->pos) into nothing
arena_pop(arena, size, ndebug) ==
  IF ~ndebug /\ ~ULe(size, arena.pos)
    THEN [arena |-> arena, aborted |-> TRUE]
    ELSE [arena |-> [arena EXCEPT !.pos = arena.pos - size],
          aborted |-> FALSE]

arena_clear(arena, ndebug) == arena_pop(arena, arena.pos, ndebug)

arena_release(arena) == NoArena("released")

(***************************************************************************)
(* frontends/manim_fe.h and frontends/manim_fe.c: the input file and its    *)
(* reader.  The file is a sequence of cells, one per field (or run of       *)
(* float fields) of the packed records; memory is a function from the byte  *)
(* offset of a cell in the frame arena to the cell, 0 where never written   *)
(* (the pages come zeroed from mmap).                                       *)
(***************************************************************************)
\* a four-character magic tag as the little-endian uint32_t of its bytes
Tag(b0, b1, b2, b3) == b0 + 256 * b1 + 65536 * b2 + 16777216 * b3

CTXT == Tag(67, 84, 88, 84)

FRAM == Tag(70, 82, 65, 77)

VMOB == Tag(86, 77, 79, 66)

RGBA == Tag(82, 71, 66, 65)

SUBP == Tag(83, 85, 66, 80)

QUAD == Tag(81, 85, 65, 68)

\* sizeof and offsetof of the packed records
SizeofRgba == 20

SizeofQuad == 28

SizeofSubpath == 24

OffsetofQuads == 16

SizeofVmo == 80

OffsetofStrokeBgRgbas == 48

\* byte offsets of the cells of each record: magic first
\* manim_rgba_t: magic, vals
RgbaLayout == << 0, 4 >>

\* manim_quad_t: magic, x1..y3
QuadLayout == << 0, 4 >>

\* manim_subpath_t up to quads: magic, x and y, quad_count
SubpathLayout == << 0, 4, 12 >>

\* manim_vmo_t up to stroke_bg_rgbas: magic, id, the two widths,
\* stroke_bg_rgbas_count, stroke_rgbas_count, fill_rgbas_count, the gradient,
\* subpath_count
VmoLayout == << 0, 4, 8, 16, 20, 24, 28, 44 >>

\* manim_file_header_t: magic, version, pixel size, frame size
HeaderLayout == << 0, 4, 8, 24 >>

\* byte offsets of the fields the reader uses
VmoStrokeBgCount == 16

VmoStrokeCount == 20

VmoFillCount == 24

VmoSubpathCount == 44

VmoStrokeBgRgbas == 48

VmoStrokeRgbas == 56

VmoFillRgbas == 64

VmoSubpaths == 72

SubpathQuadCount == 12

SubpathQuads == 16

\* a pointer into the frame arena as a memory cell
PtrCell(p) == IF p.null THEN 0 - 1 ELSE p.off

CellPtr(c) == IF c < 0 THEN NullPtr ELSE BasePlus(c)

Load(mem, off) == IF off \in DOMAIN mem THEN mem[off] ELSE 0

Store(mem, off, v) ==
  [o \in DOMAIN mem \cup {off} |-> IF o = off THEN v ELSE mem[o]]

\* the running state of a read: the frame arena, its memory, the cells of the
\* file consumed, whether the process died on an invalid pointer, and the
\* result of the last call made
ReadState(frame_arena, mem, fpos) ==
  [arena |-> frame_arena, mem |-> mem, fpos |-> fpos, crashed |-> FALSE,
   ptr |-> NullPtr, items |-> 0]

\* F of the value of x, x being evaluated once however often F uses it
Once(x, F(_)) == CHOOSE r \in {F(v) : v \in {x}} : TRUE

\* arena_push(st.arena, size); a NULL arena is dereferenced
StPush(st, size, mprotect_ok) ==
  Once(st, LAMBDA s :
    IF s.crashed THEN s
    ELSE IF s.arena.status # "live" THEN [s EXCEPT !.crashed = TRUE]
    ELSE LET r == arena_push(s.arena, size, mprotect_ok) IN
         [s EXCEPT !.arena = r.arena, !.ptr = r.ptr])

\* fread that copies the cells and leaves the file position where it was
StFread_NoAdvance(st, stream, dst, layout, size, count) ==
  Once(st, LAMBDA s :
    LET L == Len(layout)
        avail == Len(stream) - s.fpos
        want == count * L
        ncells == IF want < avail THEN want ELSE avail
        addr(j) == dst.off + (j \div L) * size + layout[(j % L) + 1]
        written == {addr(j) : j \in 0..(ncells - 1)}
        cell(o) == stream[s.fpos + 1 + (CHOOSE j \in 0..(ncells - 1) : addr(j) = o)]
    IN  IF s.crashed THEN s
        ELSE IF ncells > 0 /\ dst.null THEN [s EXCEPT !.crashed = TRUE]
        ELSE [s EXCEPT
                !.mem = [o \in DOMAIN s.mem \cup written |->
                           IF o \in written THEN cell(o) ELSE s.mem[o]],
                !.items = ncells \div L])

\* fread(dst, size, count, fp) of records of the given layout: the cells the
\* file still has are copied, whole records counted
StFread(st, stream, dst, layout, size, count) ==
  Once(st, LAMBDA s :
    LET L == Len(layout)
        avail == Len(stream) - s.fpos
        want == count * L
        ncells == IF want < avail THEN want ELSE avail
        addr(j) == dst.off + (j \div L) * size + layout[(j % L) + 1]
        written == {addr(j) : j \in 0..(ncells - 1)}
        cell(o) == stream[s.fpos + 1 + (CHOOSE j \in 0..(ncells - 1) : addr(j) = o)]
    IN  IF s.crashed THEN s
        ELSE IF ncells > 0 /\ dst.null THEN [s EXCEPT !.crashed = TRUE]
        ELSE [s EXCEPT
                !.mem = [o \in DOMAIN s.mem \cup written |->
                           IF o \in written THEN cell(o) ELSE s.mem[o]],
                !.fpos = s.fpos + ncells,
                !.items = ncells \div L])

\* the pointer the last push returned, stored in the record field at `at`
StStorePtr(st, at) ==
  Once(st, LAMBDA s :
    IF s.crashed THEN s
    ELSE [s EXCEPT !.mem = Store(s.mem, at, PtrCell(s.ptr))])

\* field = arena_push_array(frame_arena, type, count), the count and the
\* pointer being fields of a record in the arena
StPushArray(st, count_at, ptr_at, size, mprotect_ok) ==
  Once(st, LAMBDA s :
    StStorePtr(StPush(s, size * Load(s.mem, count_at), mprotect_ok), ptr_at))

\* fread(field, sizeof(type), count, fp) into the array just pushed
StFreadArray(st, stream, count_at, ptr_at, layout, size) ==
  Once(st, LAMBDA s :
    StFread(s, stream, CellPtr(Load(s.mem, ptr_at)), layout, size,
            Load(s.mem, count_at)))

\* one array of a record: pushed, then read
ReadArray(st, stream, count_at, ptr_at, layout, size, mprotect_ok) ==
  Once(st, LAMBDA s :
    StFreadArray(StPushArray(s, count_at, ptr_at, size, mprotect_ok),
                 stream, count_at, ptr_at, layout, size))

\* the body of the loop over the subpaths, for the subpath at offset sp
ReadSubpath(st, stream, sp, mprotect_ok) ==
  Once(st, LAMBDA s :
    ReadArray(StFread(s, stream, BasePlus(sp), SubpathLayout, OffsetofQuads, 1),
              stream, sp + SubpathQuadCount, sp + SubpathQuads, QuadLayout,
              SizeofQuad, mprotect_ok))

\* the loop over the subpaths of the vmo at offset v, from subpath j
RECURSIVE ReadSubpaths(_, _, _, _, _)
ReadSubpaths(st, stream, v, j, mprotect_ok) ==
  Once(st, LAMBDA s :
    IF s.crashed \/ j >= Load(s.mem, v + VmoSubpathCount) THEN s
    ELSE IF Load(s.mem, v + VmoSubpaths) < 0
      THEN [s EXCEPT !.crashed = TRUE]
    ELSE ReadSubpaths(
           ReadSubpath(s, stream,
                       Load(s.mem, v + VmoSubpaths) + j * SizeofSubpath,
                       mprotect_ok),
           stream, v, j + 1, mprotect_ok))

\* the body of the loop over the vmos, for the vmo at offset v
ReadVmo(st, stream, v, mprotect_ok) ==
  Once(st, LAMBDA s :
    ReadSubpaths(
      StPushArray(
        ReadArray(
          ReadArray(
            ReadArray(
              StFread(s, stream, BasePlus(v), VmoLayout,
                      OffsetofStrokeBgRgbas, 1),
              stream, v + VmoStrokeBgCount, v + VmoStrokeBgRgbas, RgbaLayout,
              SizeofRgba, mprotect_ok),
            stream, v + VmoStrokeCount, v + VmoStrokeRgbas, RgbaLayout,
            SizeofRgba, mprotect_ok),
          stream, v + VmoFillCount, v + VmoFillRgbas, RgbaLayout, SizeofRgba,
          mprotect_ok),
        v + VmoSubpathCount, v + VmoSubpaths, SizeofSubpath, mprotect_ok),
      stream, v, 0, mprotect_ok))

\* the loop over the vmos of the frame, from vmo i
RECURSIVE ReadVmos(_, _, _, _, _, _)
ReadVmos(st, stream, vmos, vmo_count, i, mprotect_ok) ==
  Once(st, LAMBDA s :
    IF s.crashed \/ i >= vmo_count THEN s
    ELSE IF vmos.null THEN [s EXCEPT !.crashed = TRUE]
    ELSE ReadVmos(ReadVmo(s, stream, vmos.off + i * SizeofVmo, mprotect_ok),
                  stream, vmos, vmo_count, i + 1, mprotect_ok))

\* read_frame from the push of frame->vmos on; st is the state that push left
ReadFrameBody(st, stream, magic, vmo_count, mprotect_ok) ==
  Once(st, LAMBDA s :
    [ret |-> 1,
     st |-> ReadVmos(s, stream, s.ptr, vmo_count, 0, mprotect_ok),
     frame |-> [magic |-> magic, vmo_count |-> vmo_count, vmos |-> s.ptr]])

\* read_header: the cells the file has are copied into *file_header, the
\* rest of it keeps what it held
read_header(stream, fpos, file_header) ==
  LET L == Len(HeaderLayout)
      avail == Len(stream) - fpos
      ncells == IF L < avail THEN L ELSE avail
      h == [k \in 1..L |-> IF k <= ncells THEN stream[fpos + k]
                           ELSE file_header[k]]
  IN  [ret |-> IF h[1] # CTXT THEN 0 ELSE 1, file_header |-> h,
       fpos |-> fpos + ncells]

\* read_frame; frame is the caller's manim_frame_t, which keeps across calls
\* what the last call left in it
read_frame(frame_arena, mem, stream, fpos, frame, mprotect_ok) ==
  LET st0 == ReadState(frame_arena, mem, fpos)
      has_magic == fpos < Len(stream)
      magic == IF has_magic THEN stream[fpos + 1] ELSE frame.magic
      pos1 == IF has_magic THEN fpos + 1 ELSE fpos
      has_count == pos1 < Len(stream)
  IN  IF magic # FRAM
        THEN [ret |-> 0, st |-> [st0 EXCEPT !.fpos = pos1],
              frame |-> [frame EXCEPT !.magic = magic]]
      ELSE IF ~has_count
        THEN [ret |-> 0, st |-> [st0 EXCEPT !.fpos = pos1],
              frame |-> [frame EXCEPT !.magic = magic]]
      ELSE ReadFrameBody(
             StPush([st0 EXCEPT !.fpos = pos1 + 1],
                    SizeofVmo * stream[pos1 + 1], mprotect_ok),
             stream, magic, stream[pos1 + 1], mprotect_ok)

(***************************************************************************)
(* The input files of a run: the encoding of a few frames as                *)
(* frontends/manim_fe.h lays it out, as written or damaged in one place.    *)
(***************************************************************************)
\* a cell of floats or an id; Stamp gives each a value of its own
Payload == 0 - 2

RECURSIVE Rep(_, _)
Rep(cells, n) == IF n = 0 THEN << >> ELSE cells \o Rep(cells, n - 1)

RECURSIVE EncSubpaths(_)
EncSubpaths(quad_counts) ==
  IF quad_counts = << >> THEN << >>
  ELSE << SUBP, Payload, Head(quad_counts) >>
         \o Rep(<< QUAD, Payload >>, Head(quad_counts))
         \o EncSubpaths(Tail(quad_counts))

\* a vmo with sb, s and f color stops and the given quads per subpath
EncVmo(vmo) ==
  << VMOB, Payload, Payload, vmo.sb, vmo.s, vmo.f, Payload,
     Len(vmo.subpaths) >>
    \o Rep(<< RGBA, Payload >>, vmo.sb + vmo.s + vmo.f)
    \o EncSubpaths(vmo.subpaths)

RECURSIVE EncVmos(_)
EncVmos(vmos) ==
  IF vmos = << >> THEN << >> ELSE EncVmo(Head(vmos)) \o EncVmos(Tail(vmos))

EncFrame(vmos) == << FRAM, Len(vmos) >> \o EncVmos(vmos)

RECURSIVE EncFrames(_)
EncFrames(frames) ==
  IF frames = << >> THEN << >>
  ELSE EncFrame(Head(frames)) \o EncFrames(Tail(frames))

EncHeader == << CTXT, Payload, Payload, Payload >>

Stamp(cells) ==
  [k \in 1..Len(cells) |-> IF cells[k] = Payload THEN 1000 + k ELSE cells[k]]

EncFile(frames) == Stamp(EncHeader \o EncFrames(frames))

\* the cells of the file before frame k (k from 1)
RECURSIVE FrameStart(_, _)
FrameStart(frames, k) ==
  IF k = 1 THEN Len(EncHeader)
  ELSE FrameStart(frames, k - 1) + Len(EncFrame(frames[k - 1]))

\* the cells of a frame after its last count
TailCells(vmos) ==
  IF vmos = << >> THEN 0
  ELSE LET last == vmos[Len(vmos)] IN
       IF last.subpaths = << >> THEN 2 * (last.sb + last.s + last.f)
       ELSE 2 * last.subpaths[Len(last.subpaths)]

\* the vmos of the input frames
VmoA == [sb |-> 0, s |-> 1, f |-> 1, subpaths |-> << 1 >>]

VmoB == [sb |-> 1, s |-> 0, f |-> 2, subpaths |-> << 2, 0 >>]

VmoC == [sb |-> 0, s |-> 0, f |-> 1, subpaths |-> << >>]

FrameShapes == { << >>, << VmoA >>, << VmoB, VmoC >> }

\* frames in an input file
MaxFrames == 2

Files == UNION {[1..n -> FrameShapes] : n \in 0..MaxFrames}

BadTag == Tag(88, 88, 88, 88)

IsTag(c) == c \in {CTXT, FRAM, VMOB, RGBA, SUBP, QUAD}

\* the file with the magic tag at cell k replaced
FlipTag(cells, k) == [cells EXCEPT ![k] = BadTag]

\* the least vmo_count whose array of manim_vmo_t is larger than an arena
HugeCount == (262144 * PageSize) \div SizeofVmo + 1

\* the file with the vmo_count of frame k replaced
FlipCount(cells, frames, k) ==
  [cells EXCEPT ![FrameStart(frames, k) + 2] = HugeCount]

\* the lengths at which a file is cut short: inside the header, after the
\* magic of a frame, or inside a frame past its last count (a count that is
\* not read keeps what the arena held)
CutPoints(frames) ==
  (0..(Len(EncHeader) - 1))
    \cup {FrameStart(frames, k) + 1 : k \in 1..Len(frames)}
    \cup UNION {LET e == FrameStart(frames, k) + Len(EncFrame(frames[k]))
                IN  (e - TailCells(frames[k]))..(e - 1) : k \in 1..Len(frames)}

Inputs ==
  UNION {LET cells == EncFile(frames) IN
         {[frames |-> frames, stream |-> cells, kind |-> "well-formed",
           at |-> 0]}
           \cup {[frames |-> frames, stream |-> FlipTag(cells, k),
                  kind |-> "tag", at |-> k] :
                   k \in {k \in 1..Len(cells) : IsTag(cells[k])}}
           \cup {[frames |-> frames, stream |-> SubSeq(cells, 1, n),
                  kind |-> "short", at |-> n] : n \in CutPoints(frames)}
           \cup {[frames |-> frames, stream |-> FlipCount(cells, frames, k),
                  kind |-> "count", at |-> FrameStart(frames, k) + 2] :
                   k \in 1..Len(frames)}
         : frames \in Files}

(***************************************************************************)
(* The reference associative array: a function from keys to the value last *)
(* put, or None.                                                           *)
(***************************************************************************)
None == "none"

RefPut(r, key, element) == [map |-> [r EXCEPT ![key] = element], ret |-> 1]

RefGet(r, key) ==
  IF r[key] # None THEN [ret |-> 1, out |-> r[key]]
  ELSE [ret |-> 0, out |-> Untouched]

RefRemove(r, key) ==
  IF r[key] # None THEN [map |-> [r EXCEPT ![key] = None], ret |-> 1]
  ELSE [map |-> r, ret |-> 0]

(***************************************************************************)
(* The callers of the map.  A run follows one of three call patterns:      *)
(*   "mixed"  map_put, map_get and map_remove on the keys of Keys in any   *)
(*            order (map_test_basic with a second, colliding key);         *)
(*   "bulk"   a few such calls, then the filler keys put one after the     *)
(*            other and kept (the insert loop of map_test_resize);         *)
(*   "churn"  every filler key put and removed again before the next is    *)
(*            put (an object that is visible for one frame).               *)
(***************************************************************************)
Values == {"v1", "v2"}

\* the elements put under a key of Keys: 42 always carries "v1"
ValuesOf(key) == IF key = 42 THEN {"v1"} ELSE Values

FillKey(i) == FillKeys[((i - 1) % Len(FillKeys)) + 1]

FillVal(i) == IF i % 2 = 0 THEN "v2" ELSE "v1"

\* map_put and map_remove calls on the keys of Keys in a "mixed" run
MaxOps == 8

\* map_put and map_remove calls on the keys of Keys that open a "bulk" run
MaxPre == 4

\* filler keys put in a "bulk" run
MaxKeep == 40

\* filler keys put and removed in a "churn" run
MaxChurn == 64

\* the values malloc's memory may hold where map_create leaves map->count
\* unassigned: 0 and 0xFFFFFFFF
InitCounts == {0, MAP_EMPTY_KEY}

VARIABLES
  map,      \* the Map
  ref,      \* the reference associative array run on the same calls
  removed,  \* the keys whose map_remove returned 1 and that were not put since
  hung,     \* a call did not return
  pattern,  \* the call pattern of the run
  nops,     \* map_put and map_remove calls made on the keys of Keys
  nput,     \* filler keys put so far
  nrem,     \* filler keys removed so far
  arena,    \* the arena_t
  ndebug,   \* the build defines NDEBUG
  aborted,  \* an assert failed and ended the process
  ptr,      \* what the last arena_push returned
  blocks,   \* the blocks handed out since the last rewind: <<offset, size>>
  ncalls,   \* calls made on the arena
  input,    \* the input file of manim_fe_driver
  fe,       \* manim_fe_driver's position and local variables
  dec,      \* file_header, manim_frame and the memory of the frame arena
  arenas,   \* the three scratch arenas and the two arenas of the caller
  svg,      \* the svg_frames_t handed to gen_ir_driver
  ir,       \* gen_ir_driver's position, local variables and scratch arenas
  irout     \* what gen_ir_driver hands out: the ops pushed on the ir arena,
            \* the records of the frames, and whether *ir_op_frames was set

mapvars == <<map, ref, removed, hung, pattern, nops, nput, nrem>>

arenavars == <<arena, ndebug, aborted, ptr, blocks, ncalls>>

fevars == <<input, fe, dec, arenas>>

irvars == <<svg, ir, irout>>

vars == <<mapvars, arenavars, fevars, irvars>>

\* the arena of a run that only uses the map
ArenaIdle ==
  /\ arena = NoArena("null")
  /\ ndebug = FALSE
  /\ aborted = FALSE
  /\ ptr = NullPtr
  /\ blocks = << >>
  /\ ncalls = 0

\* manim_fe_driver not called
FeIdle ==
  /\ input = [frames |-> << >>, stream |-> << >>, kind |-> "well-formed",
              at |-> 0]
  /\ fe = [pc |-> "idle"]
  /\ dec = [mem |-> << >>]
  /\ arenas = << >>

\* gen_ir_driver in a run that does not call it
IrIdle ==
  /\ svg = [num_frames |-> 0, frames |-> << >>, blob |-> << >>]
  /\ ir = [pc |-> "idle"]
  /\ irout = [ops |-> << >>, frames |-> << >>, assigned |-> FALSE]

MapInit ==
  /\ \E c \in InitCounts : map = map_create(c, TRUE)
  /\ ref = [k \in AllKeys |-> None]
  /\ removed = {}
  /\ hung = FALSE
  /\ pattern \in {"mixed", "bulk", "churn"}
  /\ nops = 0
  /\ nput = 0
  /\ nrem = 0
  /\ ArenaIdle
  /\ FeIdle
  /\ IrIdle

\* a key of Keys may be put or removed next
FreeCallAllowed ==
  \/ pattern = "mixed" /\ nops < MaxOps
  \/ pattern = "bulk" /\ nput = 0 /\ nops < MaxPre

\* the next filler key may be put
FillPutAllowed ==
  \/ pattern = "bulk" /\ nput < MaxKeep
  \/ pattern = "churn" /\ nput = nrem /\ nput < MaxChurn

\* the filler key put last may be removed
FillRemoveAllowed == pattern = "churn" /\ nput = nrem + 1

\* map_put(map, key, element) with memory to be had, the reference
\* alongside
Put(key, element) ==
  /\ ~hung
  /\ map' = map_put(map, key, element, TRUE).map
  /\ ref' = RefPut(ref, key, element).map
  /\ removed' = removed \ {key}
  /\ UNCHANGED <<hung, pattern>>
  /\ UNCHANGED <<arenavars, fevars, irvars>>

\* map_get(map, key, &out)
Get(key) ==
  /\ ~hung
  /\ hung' = map_get(map, key).hangs
  /\ UNCHANGED <<map, ref, removed, pattern, nops, nput, nrem>>
  /\ UNCHANGED <<arenavars, fevars, irvars>>

\* map_remove(map, key), the reference alongside
Remove(key) ==
  /\ ~hung
  /\ LET r == map_remove(map, key)
     IN  /\ map' = r.map
         /\ removed' = IF r.ret = 1 THEN removed \cup {key} ELSE removed
  /\ ref' = RefRemove(ref, key).map
  /\ UNCHANGED <<hung, pattern>>
  /\ UNCHANGED <<arenavars, fevars, irvars>>

PutFree ==
  /\ FreeCallAllowed
  /\ \E key \in Keys : \E element \in ValuesOf(key) : Put(key, element)
  /\ nops' = nops + 1
  /\ UNCHANGED <<nput, nrem>>

RemoveFree ==
  /\ FreeCallAllowed
  /\ \E key \in Keys : Remove(key)
  /\ nops' = nops + 1
  /\ UNCHANGED <<nput, nrem>>

PutFill ==
  /\ FillPutAllowed
  /\ Put(FillKey(nput + 1), FillVal(nput + 1))
  /\ nput' = nput + 1
  /\ UNCHANGED <<nops, nrem>>

RemoveFill ==
  /\ FillRemoveAllowed
  /\ Remove(FillKey(nput))
  /\ nrem' = nrem + 1
  /\ UNCHANGED <<nops, nput>>

GetFree == \E key \in Keys : Get(key)

GetFill == nput > 0 /\ Get(FillKey(nput))

MapNext ==
  PutFree \/ RemoveFree \/ PutFill \/ RemoveFill \/ GetFree \/ GetFill

SpecMap == MapInit /\ [][MapNext]_vars

(***************************************************************************)
(* The same calls in a process that may run out of memory: aligned_alloc   *)
(* may return NULL in map_create and in the resize of a map_put.  hung     *)
(* also stands for a call that ended the process instead of returning.     *)
(***************************************************************************)
MapAllocInit ==
  /\ \E c \in InitCounts : \E alloc_ok \in BOOLEAN :
       /\ map = map_create(c, alloc_ok)
       /\ hung = ~alloc_ok
  /\ ref = [k \in AllKeys |-> None]
  /\ removed = {}
  /\ pattern \in {"mixed", "bulk", "churn"}
  /\ nops = 0
  /\ nput = 0
  /\ nrem = 0
  /\ ArenaIdle
  /\ FeIdle
  /\ IrIdle

\* map_put(map, key, element) where the load check fails and aligned_alloc
\* returns NULL
PutNoMem(key, element) ==
  /\ ~hung
  /\ ~_load_ok(map)
  /\ \E r \in {map_put(map, key, element, FALSE)} :
       /\ map' = r.map
       /\ hung' = r.crashed
       /\ ref' = IF r.ret = 1 THEN RefPut(ref, key, element).map ELSE ref
       /\ removed' = IF r.ret = 1 THEN removed \ {key} ELSE removed
  /\ UNCHANGED <<pattern, nops, nput, nrem>>
  /\ UNCHANGED <<arenavars, fevars, irvars>>

PutNoMemFree ==
  \E key \in Keys : \E element \in ValuesOf(key) : PutNoMem(key, element)

MapAllocNext ==
  PutFree \/ RemoveFree \/ PutFill \/ RemoveFill \/ GetFree \/ GetFill
    \/ PutNoMemFree

SpecMapAlloc == MapAllocInit /\ [][MapAllocNext]_vars

(***************************************************************************)
(* The same calls by a caller that also passes the key MAP_EMPTY_KEY,      *)
(* which map_put and map_get take like any other uint32_t.  The reference  *)
(* array has no such key.                                                  *)
(***************************************************************************)
\* map_put(map, MAP_EMPTY_KEY, element)
PutReserved ==
  /\ FreeCallAllowed
  /\ ~hung
  /\ \E element \in Values :
       map' = map_put(map, MAP_EMPTY_KEY, element, TRUE).map
  /\ nops' = nops + 1
  /\ UNCHANGED <<ref, removed, hung, pattern, nput, nrem>>
  /\ UNCHANGED <<arenavars, fevars, irvars>>

\* map_get(map, MAP_EMPTY_KEY, &out)
GetReserved ==
  /\ ~hung
  /\ hung' = map_get(map, MAP_EMPTY_KEY).hangs
  /\ UNCHANGED <<map, ref, removed, pattern, nops, nput, nrem>>
  /\ UNCHANGED <<arenavars, fevars, irvars>>

MapReservedNext ==
  PutFree \/ RemoveFree \/ PutFill \/ RemoveFill \/ GetFree \/ GetFill
    \/ PutReserved \/ GetReserved

SpecMapReserved == MapInit /\ [][MapReservedNext]_vars

(***************************************************************************)
(* Calls on one arena.  The build either keeps assert() or defines NDEBUG; *)
(* the operating system may refuse any of the calls made to it.            *)
(***************************************************************************)
\* the map of a run that only uses the arena
MapIdle ==
  /\ map = map_create(0, TRUE)
  /\ ref = [k \in AllKeys |-> None]
  /\ removed = {}
  /\ hung = FALSE
  /\ pattern = "mixed"
  /\ nops = 0
  /\ nput = 0
  /\ nrem = 0

\* calls made on the arena in a run
MaxCalls == 5

\* arguments of arena_alloc_spec
VirtualBounds == {0, 1, PageSize + 1, 3 * PageSize, SIZE_MAX}

\* arguments of arena_push
PushSizes == {0, 1, 16, PageSize, 2 * PageSize + 1, SIZE_MAX}

\* arguments of arena_pop
PopSizes == {0, 1, 16, PageSize}

ArenaInit ==
  /\ \E v \in VirtualBounds : \E malloc_ok, mmap_ok, mprotect_ok \in BOOLEAN :
       arena = arena_alloc_spec(v, malloc_ok, mmap_ok, mprotect_ok)
  /\ ndebug \in BOOLEAN
  /\ aborted = FALSE
  /\ ptr = NullPtr
  /\ blocks = << >>
  /\ ncalls = 0
  /\ MapIdle
  /\ FeIdle
  /\ IrIdle

ArenaCallAllowed == arena.status = "live" /\ ~aborted /\ ncalls < MaxCalls

Push(size, mprotect_ok) ==
  /\ ArenaCallAllowed
  /\ LET r == arena_push(arena, size, mprotect_ok) IN
       /\ arena' = r.arena
       /\ ptr' = r.ptr
       /\ blocks' = IF r.ptr.null THEN blocks
                    ELSE Append(blocks, [off |-> r.ptr.off, size |-> size])
  /\ ncalls' = ncalls + 1
  /\ UNCHANGED <<ndebug, aborted>>
  /\ UNCHANGED <<mapvars, fevars, irvars>>

Pop(size) ==
  /\ ArenaCallAllowed
  /\ LET r == arena_pop(arena, size, ndebug) IN
       /\ arena' = r.arena
       /\ aborted' = r.aborted
       /\ blocks' = IF r.aborted THEN blocks ELSE << >>
  /\ ncalls' = ncalls + 1
  /\ UNCHANGED <<ndebug, ptr>>
  /\ UNCHANGED <<mapvars, fevars, irvars>>

Clear ==
  /\ ArenaCallAllowed
  /\ LET r == arena_clear(arena, ndebug) IN
       /\ arena' = r.arena
       /\ aborted' = r.aborted
       /\ blocks' = IF r.aborted THEN blocks ELSE << >>
  /\ ncalls' = ncalls + 1
  /\ UNCHANGED <<ndebug, ptr>>
  /\ UNCHANGED <<mapvars, fevars, irvars>>

Release ==
  /\ arena.status = "live" /\ ~aborted
  /\ arena' = arena_release(arena)
  /\ UNCHANGED <<ndebug, aborted, ptr, blocks, ncalls>>
  /\ UNCHANGED <<mapvars, fevars, irvars>>

PushAny == \E size \in PushSizes : \E mprotect_ok \in BOOLEAN :
             Push(size, mprotect_ok)

PopAny == \E size \in PopSizes : Pop(size)

ArenaNext == PushAny \/ PopAny \/ Clear \/ Release

SpecArena == ArenaInit /\ [][ArenaNext]_vars

(***************************************************************************)
(* frontends/manim_fe.c: manim_fe_driver on one input file.  The renderer  *)
(* (cairo) is outside the program: what it writes for an object is one of  *)
(* CairoOutputs.  A use of a NULL pointer ends the process ("crashed").    *)
(***************************************************************************)
\* 8ULL << 30 in the source; 2^18 pages here, the runs stay within the
\* first pages of an arena either way
ARENA_VIRTUAL_ALLOC_DEFAULT_SIZE == 262144 * PageSize

arena_alloc(alloc_ok) ==
  arena_alloc_spec(ARENA_VIRTUAL_ALLOC_DEFAULT_SIZE, alloc_ok, TRUE, TRUE)

\* sizeof(svg_frames_t), sizeof(svg_record_t), strlen("</svg>")
SizeofSvgFrames == 24

SizeofSvgRecord == 16

SvgCloseTagLen == 6

\* strlen(svg_header): the text with four numbers printed by %f, cut at 255
SvgHeaderLens == {200, 255}

\* what the renderer writes for one object: the bytes of the document, and
\* the bytes from "<path " up to "/>" (0: no path in it)
CairoOutputs ==
  { [bytes |-> 300, path |-> 0], [bytes |-> 5000, path |-> 3000] }

\* the arena of blobs the caller hands in: fresh, or with little room left
BlobArenas ==
  { arena_alloc(TRUE),
    arena_push(arena_alloc_spec(1, TRUE, TRUE, TRUE), 3900, TRUE).arena }

\* the characters %u prints
RECURSIVE Digits(_)
Digits(n) == IF n < 10 THEN 1 ELSE 1 + Digits(n \div 10)

\* strlen of "%s data-tag=\"%u\"/>\n" printed for a path of count characters
TaggedLen(count, id) == count + 15 + Digits(id)

FeInit ==
  /\ input \in Inputs
  /\ dec = [file_header |-> << 0, 0, 0, 0 >>,
            frame |-> [magic |-> 0, vmo_count |-> 0, vmos |-> NullPtr],
            mem |-> << >>]
  /\ \E blob \in BlobArenas :
       arenas = [frame |-> NoArena("unset"), string |-> NoArena("unset"),
                 cairo |-> NoArena("unset"), blob |-> blob,
                 record |-> arena_alloc(TRUE)]
  /\ fe = [pc |-> "open", fpos |-> 0, frame_index |-> 0, i |-> 0,
           ret |-> 0 - 1, header_ret |-> 0 - 1, read_ret |-> 0 - 1,
           nreads |-> 0, nrecords |-> 0, out |-> NullPtr, records |-> << >>,
           num_frames |-> 0 - 1]
  /\ MapIdle
  /\ ArenaIdle
  /\ IrIdle

Crash ==
  /\ fe' = [fe EXCEPT !.pc = "crashed"]
  /\ UNCHANGED <<input, dec, arenas>>

\* fopen
FileOpen(fopen_ok) ==
  /\ fe.pc = "open"
  /\ fe' = IF fopen_ok THEN [fe EXCEPT !.pc = "alloc"]
           ELSE [fe EXCEPT !.pc = "done", !.ret = 1]
  /\ UNCHANGED <<input, dec, arenas, mapvars, arenavars, irvars>>

\* the three arena_alloc calls and the svg_frames_t pushed on the blob arena
AllocScratch(ok1, ok2, ok3, mprotect_ok) ==
  /\ fe.pc = "alloc"
  /\ LET hdr == arena_push(arenas.blob, SizeofSvgFrames, mprotect_ok) IN
       IF hdr.ptr.null \/ arenas.record.status # "live"
         THEN Crash
         ELSE /\ arenas' = [arenas EXCEPT !.frame = arena_alloc(ok1),
                                          !.string = arena_alloc(ok2),
                                          !.cairo = arena_alloc(ok3),
                                          !.blob = hdr.arena]
              /\ fe' = [fe EXCEPT !.pc = "header", !.out = hdr.ptr]
              /\ UNCHANGED <<input, dec>>
  /\ UNCHANGED <<mapvars, arenavars, irvars>>

\* read_header(fp, &file_header), its result dropped; garbage is what the
\* uninitialised file_header holds where the magic is
ReadHeader(garbage) ==
  /\ fe.pc = "header"
  /\ LET r == read_header(input.stream, fe.fpos,
                          [dec.file_header EXCEPT ![1] = garbage]) IN
       /\ dec' = [dec EXCEPT !.file_header = r.file_header]
       /\ fe' = [fe EXCEPT !.pc = "read", !.fpos = r.fpos,
                           !.header_ret = r.ret]
  /\ UNCHANGED <<input, arenas, mapvars, arenavars, irvars>>

\* the loop condition: read_frame(scratch_manim_frame_arena, fp, &manim_frame);
\* garbage is what the uninitialised manim_frame holds where the magic is,
\* before the first call
ReadFrame(garbage, mprotect_ok) ==
  /\ fe.pc = "read"
  /\ \E r \in {read_frame(arenas.frame, dec.mem, input.stream, fe.fpos,
                           IF fe.nreads = 0
                             THEN [dec.frame EXCEPT !.magic = garbage]
                             ELSE dec.frame,
                           mprotect_ok)} :
       IF r.st.crashed
         THEN Crash
         ELSE /\ arenas' = [arenas EXCEPT !.frame = r.st.arena]
              /\ dec' = [dec EXCEPT !.frame = r.frame, !.mem = r.st.mem]
              /\ fe' = [fe EXCEPT
                          !.pc = IF r.ret = 1 THEN "begin" ELSE "release",
                          !.fpos = r.st.fpos,
                          !.read_ret = r.ret,
                          !.nreads = fe.nreads + 1]
              /\ UNCHANGED input
  /\ UNCHANGED <<mapvars, arenavars, irvars>>

\* the start of a frame with the offset of the record taken after the svg
\* header was appended
BeginFrame_OffsetAfterHeader(header_len, mprotect_ok) ==
  /\ fe.pc = "begin"
  /\ LET rec == arena_push(arenas.record, SizeofSvgRecord, mprotect_ok)
         hdr == arena_push(arenas.blob, header_len, mprotect_ok)
     IN  IF rec.ptr.null \/ hdr.ptr.null
           THEN Crash
           ELSE /\ arenas' = [arenas EXCEPT !.record = rec.arena,
                                            !.blob = hdr.arena]
                /\ fe' = [fe EXCEPT
                            !.pc = "vmo", !.i = 0,
                            !.nrecords = fe.nrecords + 1,
                            !.records =
                              Append(@, [at |-> rec.ptr.off,
                                         length |-> header_len,
                                         offset |-> hdr.arena.pos])]
                /\ UNCHANGED <<input, dec>>
  /\ UNCHANGED <<mapvars, arenavars, irvars>>

\* the svg_record_t of the frame (records keeps each with the offset at
\* which it lies in the record arena) and the svg header appended to the
\* blob
BeginFrame(header_len, mprotect_ok) ==
  /\ fe.pc = "begin"
  /\ LET rec == arena_push(arenas.record, SizeofSvgRecord, mprotect_ok)
         hdr == arena_push(arenas.blob, header_len, mprotect_ok)
     IN  IF rec.ptr.null \/ hdr.ptr.null
           THEN Crash
           ELSE /\ arenas' = [arenas EXCEPT !.record = rec.arena,
                                            !.blob = hdr.arena]
                /\ fe' = [fe EXCEPT
                            !.pc = "vmo", !.i = 0,
                            !.nrecords = fe.nrecords + 1,
                            !.records =
                              Append(@, [at |-> rec.ptr.off,
                                         length |-> header_len,
                                         offset |-> arenas.blob.pos])]
                /\ UNCHANGED <<input, dec>>
  /\ UNCHANGED <<mapvars, arenavars, irvars>>

\* render_vmo: the indexes into vmo->subpaths of the entries that pass j of
\* the loop over the subpaths reads: subpath = &vmo->subpaths[j] itself,
\* first = &subpath[0] and last = &subpath[subpath_count - 1]
SubpathReads(subpath_count, j) == {j, j + 0, j + (subpath_count - 1)}

\* render_vmo: the indexes into subpath->quads that the loop over the quads
\* of one subpath reads
QuadReads(quad_count) == 0..(quad_count - 1)

\* the address of the vmo that the next pass of the loop over the vmos
\* hands to render_vmo
VmoAt(i) == dec.frame.vmos.off + i * SizeofVmo

\* one pass of the loop over the vmos: render, cut the path out, tag it,
\* append it to the blob
RenderVmo(out, mprotect_ok) ==
  /\ fe.pc = "vmo"
  /\ fe.i < dec.frame.vmo_count
  /\ LET id == Load(dec.mem, dec.frame.vmos.off + fe.i * SizeofVmo + 4)
         wr == arena_push(arenas.cairo, out.bytes, mprotect_ok)
         nul == arena_push(wr.arena, 1, mprotect_ok)
         has_path == ~wr.ptr.null /\ out.path > 0
         cleared == arena_clear(nul.arena, ndebug).arena
         path_str == arena_push(arenas.string, out.path + 1, mprotect_ok)
         tagged == arena_push(path_str.arena,
                              out.path + Digits(id) + 32, mprotect_ok)
         copy == arena_push(arenas.blob, TaggedLen(out.path, id), mprotect_ok)
     IN  IF arenas.cairo.status # "live" \/ nul.ptr.null
           THEN Crash
         ELSE IF ~has_path
           THEN /\ arenas' = [arenas EXCEPT !.cairo = cleared]
                /\ fe' = [fe EXCEPT !.i = fe.i + 1]
                /\ UNCHANGED <<input, dec>>
         ELSE IF \/ arenas.string.status # "live"
                 \/ path_str.ptr.null \/ tagged.ptr.null \/ copy.ptr.null
           THEN Crash
         ELSE /\ arenas' = [arenas EXCEPT !.cairo = cleared,
                                          !.string = tagged.arena,
                                          !.blob = copy.arena]
              /\ fe' = [fe EXCEPT
                          !.i = fe.i + 1,
                          !.records[Len(fe.records)].length =
                            @ + TaggedLen(out.path, id)]
              /\ UNCHANGED <<input, dec>>
  /\ UNCHANGED <<mapvars, arenavars, irvars>>

\* the end of a frame that leaves the string arena as the frame filled it
EndFrame_KeepsStrings(mprotect_ok) ==
  /\ fe.pc = "vmo"
  /\ fe.i >= dec.frame.vmo_count
  /\ LET close == arena_push(arenas.blob, SvgCloseTagLen, mprotect_ok) IN
       IF \/ close.ptr.null
          \/ \E a \in {"cairo", "string", "frame"} : arenas[a].status # "live"
         THEN Crash
         ELSE /\ arenas' = [arenas EXCEPT
                              !.blob = close.arena,
                              !.cairo = arena_clear(@, ndebug).arena,
                              !.frame = arena_clear(@, ndebug).arena]
              /\ fe' = [fe EXCEPT
                          !.pc = "read",
                          !.frame_index = fe.frame_index + 1,
                          !.records[Len(fe.records)].length =
                            @ + SvgCloseTagLen]
              /\ UNCHANGED <<input, dec>>
  /\ UNCHANGED <<mapvars, arenavars, irvars>>

\* after the vmos: the closing tag, ++frame_index, the three arena_clear
EndFrame(mprotect_ok) ==
  /\ fe.pc = "vmo"
  /\ fe.i >= dec.frame.vmo_count
  /\ LET close == arena_push(arenas.blob, SvgCloseTagLen, mprotect_ok) IN
       IF \/ close.ptr.null
          \/ \E a \in {"cairo", "string", "frame"} : arenas[a].status # "live"
         THEN Crash
         ELSE /\ arenas' = [arenas EXCEPT
                              !.blob = close.arena,
                              !.cairo = arena_clear(@, ndebug).arena,
                              !.string = arena_clear(@, ndebug).arena,
                              !.frame = arena_clear(@, ndebug).arena]
              /\ fe' = [fe EXCEPT
                          !.pc = "read",
                          !.frame_index = fe.frame_index + 1,
                          !.records[Len(fe.records)].length =
                            @ + SvgCloseTagLen]
              /\ UNCHANGED <<input, dec>>
  /\ UNCHANGED <<mapvars, arenavars, irvars>>

\* after the loop: the three arena_release, num_frames, fclose, return 0
Finish ==
  /\ fe.pc = "release"
  /\ IF \E a \in {"cairo", "string", "frame"} : arenas[a].status # "live"
       THEN Crash
       ELSE /\ arenas' = [arenas EXCEPT
                            !.frame = arena_release(@),
                            !.cairo = arena_release(@),
                            !.string = arena_release(@)]
            /\ fe' = [fe EXCEPT !.pc = "done", !.ret = 0,
                                !.num_frames = fe.frame_index]
            /\ UNCHANGED <<input, dec>>
  /\ UNCHANGED <<mapvars, arenavars, irvars>>

FeNext ==
  \/ \E fopen_ok \in BOOLEAN : FileOpen(fopen_ok)
  \/ \E ok1, ok2, ok3, mprotect_ok \in BOOLEAN :
       AllocScratch(ok1, ok2, ok3, mprotect_ok)
  \/ \E garbage \in {0, CTXT} : ReadHeader(garbage)
  \/ \E garbage \in {0, FRAM} : \E mprotect_ok \in BOOLEAN :
       ReadFrame(garbage, mprotect_ok)
  \/ \E header_len \in SvgHeaderLens : \E mprotect_ok \in BOOLEAN :
       BeginFrame(header_len, mprotect_ok)
  \/ \E out \in CairoOutputs : \E mprotect_ok \in BOOLEAN :
       RenderVmo(out, mprotect_ok)
  \/ \E mprotect_ok \in BOOLEAN : EndFrame(mprotect_ok)
  \/ Finish

SpecFe == FeInit /\ [][FeNext]_vars

(***************************************************************************)
(* manim_fe_driver in a process that gets all the memory it asks for: the  *)
(* caller's arenas are fresh and no call to the operating system fails.    *)
(* The process keeps running as long as it has a step to take.             *)
(***************************************************************************)
FeMemInit ==
  /\ input \in Inputs
  /\ dec = [file_header |-> << 0, 0, 0, 0 >>,
            frame |-> [magic |-> 0, vmo_count |-> 0, vmos |-> NullPtr],
            mem |-> << >>]
  /\ arenas = [frame |-> NoArena("unset"), string |-> NoArena("unset"),
               cairo |-> NoArena("unset"), blob |-> arena_alloc(TRUE),
               record |-> arena_alloc(TRUE)]
  /\ fe = [pc |-> "open", fpos |-> 0, frame_index |-> 0, i |-> 0,
           ret |-> 0 - 1, header_ret |-> 0 - 1, read_ret |-> 0 - 1,
           nreads |-> 0, nrecords |-> 0, out |-> NullPtr, records |-> << >>,
           num_frames |-> 0 - 1]
  /\ MapIdle
  /\ ArenaIdle
  /\ IrIdle

FeMemNext ==
  \/ \E fopen_ok \in BOOLEAN : FileOpen(fopen_ok)
  \/ AllocScratch(TRUE, TRUE, TRUE, TRUE)
  \/ \E garbage \in {0, CTXT} : ReadHeader(garbage)
  \/ \E garbage \in {0, FRAM} : ReadFrame(garbage, TRUE)
  \/ \E header_len \in SvgHeaderLens : BeginFrame(header_len, TRUE)
  \/ \E out \in CairoOutputs : RenderVmo(out, TRUE)
  \/ EndFrame(TRUE)
  \/ Finish

SpecFeMem == FeMemInit /\ [][FeMemNext]_vars /\ WF_vars(FeMemNext)

(***************************************************************************)
(* ir/gen_ir.c: gen_ir_driver.  The blob of svg_frames is a sequence of    *)
(* characters, given by their codes; the ops the driver hands to its       *)
(* caller are what it pushed on the ir arena, and *ir_op_frames.           *)
(***************************************************************************)
\* the characters the scan compares with: '<', '>', 'p', 'P'
ChLt == 60

ChGt == 62

ChLowerP == 112

ChUpperP == 80

\* the text of one object: <p, the digit of its id, the letter of its state,
\* />
PathText(o) == << ChLt, ChLowerP, 48 + o.id, 96 + o.sig, 47, ChGt >>

RECURSIVE PathTexts(_)
PathTexts(objs) ==
  IF objs = << >> THEN << >>
  ELSE PathText(Head(objs)) \o PathTexts(Tail(objs))

\* the svg of one frame: <?>, <s>, the paths, </>
SvgText(objs) ==
  << ChLt, 63, ChGt, ChLt, 115, ChGt >> \o PathTexts(objs)
    \o << ChLt, 47, ChGt >>

\* svg_frames_t of the given frames: the records and the blob
RECURSIVE SvgFrames(_)
SvgFrames(frames) ==
  IF frames = << >>
    THEN [num_frames |-> 0, frames |-> << >>, blob |-> << >>]
  ELSE LET rest == SvgFrames(SubSeq(frames, 1, Len(frames) - 1))
           text == SvgText(frames[Len(frames)])
       IN  [num_frames |-> rest.num_frames + 1,
            frames |-> Append(rest.frames, [length |-> Len(text),
                                            offset |-> Len(rest.blob)]),
            blob |-> rest.blob \o text]

\* the objects of the source frames, which svg.scene keeps beside the text
\* made of them: id and state
Obj(id, sig) == [id |-> id, sig |-> sig]

SceneShapes ==
  { << >>, << Obj(5, 1) >>, << Obj(5, 2) >>, << Obj(5, 1), Obj(7, 1) >> }

\* frames handed to gen_ir_driver
MaxSvgFrames == 3

Scenes == UNION {[1..n -> SceneShapes] : n \in 0..MaxSvgFrames}

\* the digits of a text
DigitsIn(text) == {k \in DOMAIN text : text[k] >= 48 /\ text[k] <= 57}

\* gen_path_ir that pushes a SET_ATTR op for the element whose digit the
\* text holds, whatever the element was before
gen_path_ir_SetsAttr(out, svg_path, length) ==
  IF DigitsIn(svg_path) = {} THEN out
  ELSE [out EXCEPT !.ops =
          Append(@, [op |-> "SET_ATTR",
                     element_id |->
                       svg_path[CHOOSE k \in DigitsIn(svg_path) :
                                  \A m \in DigitsIn(svg_path) : k <= m] - 48,
                     value |-> 0])]

\* gen_path_ir: an empty body
gen_path_ir(out, svg_path, length) == out

IrInit ==
  /\ \E scene \in Scenes : \E f \in {SvgFrames(scene)} :
       svg = [num_frames |-> f.num_frames, frames |-> f.frames,
              blob |-> f.blob, scene |-> scene]
  /\ ir = [pc |-> "alloc", i |-> 0, j |-> 0, tracking |-> FALSE,
           curr_path_len |-> 0, ret |-> 0 - 1, svg_path |-> << >>,
           ends |-> << >>, scratch |-> NoArena("unset"),
           path_arena |-> NoArena("unset")]
  /\ irout = [ops |-> << >>, frames |-> << >>, assigned |-> FALSE]
  /\ MapIdle
  /\ ArenaIdle
  /\ FeIdle

\* the two arena_alloc calls
IrAlloc(ok1, ok2) ==
  /\ ir.pc = "alloc"
  /\ ir' = [ir EXCEPT !.pc = "frame", !.scratch = arena_alloc(ok1),
                      !.path_arena = arena_alloc(ok2)]
  /\ UNCHANGED <<svg, irout, mapvars, arenavars, fevars>>

\* the head of the loop over the frames, and the return after it
IrFrame ==
  /\ ir.pc = "frame"
  /\ ir' = IF ir.i < svg.num_frames
             THEN [ir EXCEPT !.pc = "scan", !.j = 0, !.tracking = FALSE,
                             !.curr_path_len = 0]
             ELSE [ir EXCEPT !.pc = "done", !.ret = 0]
  /\ UNCHANGED <<svg, irout, mapvars, arenavars, fevars>>

\* one pass of the loop over the characters of frame i; oob_faults is the
\* outcome of a memcpy that reads past the end of the blob
IrScan(mprotect_ok, oob_faults) ==
  /\ ir.pc = "scan"
  /\ ir.j < svg.frames[ir.i + 1].length
  /\ LET at == svg.frames[ir.i + 1].offset + ir.j + 1
         len == ir.curr_path_len + 1
         dest == arena_push(ir.path_arena, len + 1, mprotect_ok)
         copied == [k \in 1..len |->
                      IF at + k - 1 <= Len(svg.blob)
                        THEN svg.blob[at + k - 1] ELSE 0 - 1]
     IN  IF ir.tracking /\ svg.blob[at] = ChGt
           THEN IF \/ ir.path_arena.status # "live"
                   \/ dest.ptr.null
                   \/ (at + len - 1 > Len(svg.blob) /\ oob_faults)
                  THEN /\ ir' = [ir EXCEPT !.pc = "crashed"]
                       /\ UNCHANGED irout
                  ELSE /\ irout' = gen_path_ir(irout, Append(copied, 0),
                                               len + 1)
                       /\ ir' = [ir EXCEPT !.path_arena = dest.arena,
                                           !.svg_path = Append(copied, 0),
                                           !.curr_path_len = 0,
                                           !.tracking = FALSE,
                                           !.j = ir.j + 1]
         ELSE IF ir.tracking
           THEN /\ ir' = [ir EXCEPT !.curr_path_len = len, !.j = ir.j + 1]
                /\ UNCHANGED irout
         ELSE IF /\ ir.j + 1 < svg.frames[ir.i + 1].length
                 /\ svg.blob[at] = ChLt
                 /\ svg.blob[at + 1] \in {ChLowerP, ChUpperP}
           THEN /\ ir' = [ir EXCEPT !.curr_path_len = len,
                                    !.tracking = TRUE, !.j = ir.j + 1]
                /\ UNCHANGED irout
         ELSE /\ ir' = [ir EXCEPT !.j = ir.j + 1]
              /\ UNCHANGED irout
  /\ UNCHANGED <<svg, mapvars, arenavars, fevars>>

\* the end of the loop over the characters: i++; ends keeps how many ops
\* had been handed out when each frame was done
IrEndFrame ==
  /\ ir.pc = "scan"
  /\ ir.j >= svg.frames[ir.i + 1].length
  /\ ir' = [ir EXCEPT !.pc = "frame", !.i = ir.i + 1,
                      !.ends = Append(ir.ends, Len(irout.ops))]
  /\ UNCHANGED <<svg, irout, mapvars, arenavars, fevars>>

IrNext ==
  \/ \E ok1, ok2 \in BOOLEAN : IrAlloc(ok1, ok2)
  \/ IrFrame
  \/ \E mprotect_ok, oob_faults \in BOOLEAN : IrScan(mprotect_ok, oob_faults)
  \/ IrEndFrame

SpecIr == IrInit /\ [][IrNext]_vars

(***************************************************************************)
(* ir/ir.h: ir_op_get_data on an ir_op_frames_t whose blob is an array of  *)
(* ir_op_t, the ops of frame 0 first.  Addresses are byte offsets from the *)
(* blob.  A record's offset says where the ops of its frame start: in      *)
(* bytes, as svg_record_t's offset does, or in ops.                        *)
(***************************************************************************)
\* sizeof(ir_op_t): the opcode, padding, and the union, whose largest member
\* holds two 32-bit fields and a pointer
SizeofIrOp == 24

\* frames of an ir_op_frames_t, ops of one frame, op indexes asked for
MaxIrFrames == 3

MaxFrameOps == 2

MaxOpIndex == 3

\* the ops before frame k (k from 1) of frames with the given numbers of ops
RECURSIVE OpsBefore(_, _)
OpsBefore(counts, k) ==
  IF k = 1 THEN 0 ELSE OpsBefore(counts, k - 1) + counts[k - 1]

\* the records of frames with the given numbers of ops, offsets in unit
IrOpRecords(counts, unit) ==
  [k \in 1..Len(counts) |->
     [num_ops |-> counts[k], offset |-> unit * OpsBefore(counts, k)]]

\* (const ir_op_t *)blob + n: n elements, not n bytes, past blob
IrOpPtrPlus(blob, n) == blob + n * SizeofIrOp

ir_op_get_data(ir_op_frames, frame_num, ir_op_index) ==
  IrOpPtrPlus(ir_op_frames.blob,
              ir_op_frames.frames[frame_num + 1].offset
                + ir_op_index * SizeofIrOp)

IrGetInit ==
  /\ svg = [num_frames |-> 0, frames |-> << >>, blob |-> << >>]
  /\ \E n \in 1..MaxIrFrames : \E counts \in [1..n -> 0..MaxFrameOps] :
       \E unit \in {1, SizeofIrOp} :
         irout = [ops |-> << >>, frames |-> IrOpRecords(counts, unit),
                  assigned |-> TRUE, num_frames |-> n, blob |-> 0,
                  counts |-> counts]
  /\ ir = [pc |-> "get", frame_num |-> 0, ir_op_index |-> 0, ret |-> 0]
  /\ MapIdle
  /\ ArenaIdle
  /\ FeIdle

\* one call ir_op_get_data(ir_op_frames, frame_num, ir_op_index)
IrGet(frame_num, ir_op_index) ==
  /\ ir.pc \in {"get", "got"}
  /\ frame_num < irout.num_frames
  /\ ir' = [pc |-> "got", frame_num |-> frame_num,
            ir_op_index |-> ir_op_index,
            ret |-> ir_op_get_data(irout, frame_num, ir_op_index)]
  /\ UNCHANGED <<svg, irout, mapvars, arenavars, fevars>>

SpecIrGet ==
  IrGetInit
    /\ [][\E frame_num \in 0..(MaxIrFrames - 1) :
            \E ir_op_index \in 0..MaxOpIndex :
              IrGet(frame_num, ir_op_index)]_vars

(***************************************************************************)
(* Claims about the map                                                    *)
(***************************************************************************)
Tombstones(m) == {i \in DOMAIN m.table : m.table[i].state = "REMOVED"}

OccupiedSlots(m) == {i \in DOMAIN m.table : m.table[i].state = "OCCUPIED"}

\* the buckets of m that are Occupied and hold key
SlotsOf(m, key) ==
  {i \in DOMAIN m.table :
     m.table[i].state = "OCCUPIED" /\ m.table[i].key = key}

Resident(m, key) == SlotsOf(m, key) # {}

\* the keys held by the Occupied buckets of m
ResidentKeys(m) == {m.table[i].key : i \in OccupiedSlots(m)}


\* C1: after every sequence of map_put, map_get and map_remove calls, the
\* next call returns (and map_get copies out) what the reference associative
\* array returns for it: map_get finds exactly the keys put and not removed
\* since, with the value put last; map_remove returns 1 exactly for those
\* keys; map_put returns 1.
C1_RefinesReference ==
  ~hung =>
    \A key \in AllKeys :
      /\ LET g == map_get(map, key)
             q == RefGet(ref, key)
         IN  ~g.hangs /\ g.ret = q.ret /\ g.out = q.out
      /\ map_remove(map, key).ret = RefRemove(ref, key).ret
      /\ \A element \in Values :
           map_put(map, key, element, TRUE).ret = RefPut(ref, key, element).ret

\* C2: a map_put(k, v) on a key k that is resident overwrites k's bucket:
\* afterwards exactly one Occupied bucket holds k, map->count is unchanged
\* and map_get(k) yields v.
C2_PutOverwritesResident ==
  [][\A key \in AllKeys : \A element \in Values :
       (Put(key, element) /\ Resident(map, key)) =>
         /\ Cardinality(SlotsOf(map', key)) = 1
         /\ map'.count = map.count
         /\ map_get(map', key) =
              [ret |-> 1, out |-> element, hangs |-> FALSE]]_vars

\* C3: once map_remove(k) has returned 1, map_get(k) returns 0 until k is
\* put again.
C3_RemovedNotFound ==
  \A key \in removed :
    LET g == map_get(map, key) IN ~g.hangs /\ g.ret = 0

\* C4: a map_remove(k) that returns 1 turns one Occupied bucket holding k
\* into a Tombstone and changes no other bucket; every other key that was
\* resident is still found by map_get, with the value it had.
C4_RemoveKeepsOthers ==
  [][\A key \in AllKeys :
       (Remove(key) /\ map_remove(map, key).ret = 1) =>
         /\ \E i \in SlotsOf(map, key) :
              /\ map'.table[i].state = "REMOVED"
              /\ \A j \in DOMAIN map.table \ {i} :
                   map'.table[j] = map.table[j]
         /\ \A other \in ResidentKeys(map) \ {key} :
              /\ map_get(map', other).ret = 1
              /\ map_get(map', other) = map_get(map, other)]_vars

\* a key is resident and found although the bucket its probe starts at is a
\* Tombstone left by the removal of another key
C4_Witness ==
  \E key \in Keys :
    /\ Resident(map, key)
    /\ removed # {}
    /\ map.table[UMod32(HashOf[key], map.size)].state = "REMOVED"
    /\ map_get(map, key).ret = 1

\* C5: every map_get and map_remove call returns (found or not found),
\* whatever the table holds.
C5_GetAndRemoveReturn == ~hung

\* C6: after every map_put that returns 1, Occupied plus Tombstone buckets
\* are at most 60% of the table length.
C6_LoadAtMost60 ==
  [][\A key \in AllKeys : \A element \in Values :
       (Put(key, element) /\ map_put(map, key, element, TRUE).ret = 1) =>
         (Cardinality(OccupiedSlots(map')) + Cardinality(Tombstones(map')))
             * 100 <= MAP_MAX_LOAD * map'.size]_vars

\* C7: where map_put finds the load check failing, the rebuild succeeds,
\* yields a table of exactly double the length without any Tombstone, maps
\* every resident key to the value it had and makes no other key resident.
C7_ResizePreserves ==
  (~hung /\ ~_load_ok(map)) =>
    LET r == _map_resize(map, TRUE) IN
      /\ r.ret = 1
      /\ r.map.size = 2 * map.size
      /\ Tombstones(r.map) = {}
      /\ ResidentKeys(r.map) = ResidentKeys(map)
      /\ \A key \in ResidentKeys(map) :
           map_get(r.map, key) = map_get(map, key)

\* the key-to-value pairs of m
ResidentPairs(m) ==
  {<<m.table[i].key, m.table[i].data>> : i \in OccupiedSlots(m)}

\* C28: when the aligned_alloc of a table returns NULL, in map_create or in
\* the resize of a map_put, the missing table is not dereferenced (the call
\* returns), map_put returns 0, and a map_put that fails leaves the map's
\* length, count and resident key-to-value pairs as they were.
C28_AllocationFailurePropagated ==
  /\ ~hung
  /\ [][\A key \in AllKeys : \A element \in Values :
          PutNoMem(key, element) =>
            /\ ~hung'
            /\ map_put(map, key, element, FALSE).ret = 0
            /\ map'.size = map.size
            /\ map'.count = map.count
            /\ ResidentPairs(map') = ResidentPairs(map)]_vars

\* C29: in every reachable state no Occupied bucket holds the reserved key
\* 0xFFFFFFFF, whatever keys were passed to map_put, and
\* map_get(0xFFFFFFFF) does not report the key as found.
C29_ReservedKeyNeverResident ==
  /\ \A i \in OccupiedSlots(map) : map.table[i].key # MAP_EMPTY_KEY
  /\ map_get(map, MAP_EMPTY_KEY).ret = 0

IsPowerOfTwo(n) == n > 0 /\ BitAnd(n, n - 1) = 0

\* the probe step of map_put, map_get and map_remove from bucket idx
ProbeStep(m, idx) == BitAnd(idx + 1, m.size - 1)

\* the probe step takes every bucket to the one after it and the last
\* bucket to the first: map->size steps from any bucket look at every
\* bucket of the table once
ProbeIsFullSweep(m) ==
  /\ \A idx \in 0..(m.size - 2) : ProbeStep(m, idx) = idx + 1
  /\ ProbeStep(m, m.size - 1) = 0

\* C30: map->size is a power of two in every reachable state, MAP_START_SIZE
\* after map_create and doubled by each resize, so that a probe of
\* map->size steps (idx + 1) & (size - 1) looks at every bucket of the
\* table once.
C30_SizePowerOfTwo ==
  /\ IsPowerOfTwo(map.size)
  /\ map.size >= MAP_START_SIZE
  /\ DOMAIN map.table = 0..(map.size - 1)
  /\ ProbeIsFullSweep(map)

\* a table that was resized and put in since, probed over its new length
C30_Witness ==
  /\ map.size = 2 * MAP_START_SIZE
  /\ \E key \in Keys : Resident(map, key)
  /\ ProbeStep(map, MAP_START_SIZE - 1) = MAP_START_SIZE

\* C34: in every reachable state of a map made by map_create, map->count
\* is the number of Occupied buckets (0 right after map_create), which is
\* what the load check of map_put divides by the size.
C34_CountIsOccupied ==
  map.count = Cardinality(OccupiedSlots(map))

(***************************************************************************)
(* Claims about the arena                                                  *)
(***************************************************************************)
\* the number of times 2^64 is in the value a size_t representative stands
\* for, less the representative
Wraps(x) == IF x < 0 THEN 1 ELSE 0

\* a + b <= c on the values the size_t representatives stand for, the sum
\* taken in the integers
SumLe(a, b, c) ==
  \/ Wraps(a) + Wraps(b) < Wraps(c)
  \/ Wraps(a) + Wraps(b) = Wraps(c) /\ a + b <= c

\* a + b = c on the values the size_t representatives stand for
SumEq(a, b, c) == Wraps(a) + Wraps(b) = Wraps(c) /\ a + b = c

\* two blocks share no byte
Disjoint(b1, b2) ==
  \/ b1.size = 0
  \/ b2.size = 0
  \/ SumLe(b1.off, b1.size, b2.off)
  \/ SumLe(b2.off, b2.size, b1.off)

\* C8: 0 <= pos <= committed <= capacity holds for an arena right after
\* arena_alloc_spec succeeds and after any sequence of arena_push, arena_pop
\* and arena_clear calls.
C8_PosCommittedCapacity ==
  (arena.status = "live" /\ ~aborted) =>
    /\ ULe(0, arena.pos)
    /\ ULe(arena.pos, arena.committed)
    /\ ULe(arena.committed, arena.capacity)

\* C9: an arena_push(n) that succeeds returns base + p, p the position before
\* the call, and sets pos to p + n; the blocks handed out since the last
\* rewind are contiguous and pairwise non-overlapping, and the first push
\* after a rewind to p starts at p.
C9_PushReturnsPosition ==
  [][\A size \in PushSizes : \A mprotect_ok \in BOOLEAN :
       (Push(size, mprotect_ok) /\ ~ptr'.null) =>
         /\ ptr' = BasePlus(arena.pos)
         /\ SumEq(arena.pos, size, arena'.pos)
         /\ \A i \in 1..(Len(blocks') - 1) :
              SumEq(blocks'[i].off, blocks'[i].size, blocks'[i + 1].off)
         /\ \A i, j \in 1..Len(blocks') :
              i < j => Disjoint(blocks'[i], blocks'[j])]_vars

\* C10: arena_push(n) with n greater than capacity - pos returns NULL, and an
\* arena_push that returns NULL leaves pos, committed and capacity unchanged.
C10_PushBeyondCapacityFails ==
  [][\A size \in PushSizes : \A mprotect_ok \in BOOLEAN :
       Push(size, mprotect_ok) =>
         /\ ~SumLe(arena.pos, size, arena.capacity) => ptr'.null
         /\ ptr'.null => arena' = arena]_vars

\* C11: across arena_push calls with arbitrary size_t sizes, pos never
\* decreases; pos moves backward only in arena_pop and arena_clear.
C11_PushNeverLowersPos ==
  [][\A size \in PushSizes : \A mprotect_ok \in BOOLEAN :
       Push(size, mprotect_ok) => ULe(arena.pos, arena'.pos)]_vars

\* C12: an arena_pop with size > pos is rejected and leaves pos and committed
\* unchanged; pos never wraps below zero and never moves forward through a
\* rewind.
C12_PopBeyondPosRejected ==
  [][/\ \A size \in PopSizes :
          (Pop(size) /\ ULt(arena.pos, size)) =>
            /\ arena'.pos = arena.pos
            /\ arena'.committed = arena.committed
     /\ (PopAny \/ Clear) => ULe(arena'.pos, arena.pos)]_vars

\* C13: arena_pop and arena_clear change only pos (committed, capacity, base
\* and page_size stay, no page is given back), and arena_clear leaves pos = 0.
C13_RewindChangesOnlyPos ==
  [][/\ (PopAny \/ Clear) => arena' = [arena EXCEPT !.pos = arena'.pos]
     /\ (Clear /\ ~aborted') => arena'.pos = 0]_vars

\* a clear was made on an arena that had committed more than its first page
C13_Witness ==
  /\ arena.status = "live"
  /\ ~aborted
  /\ ncalls >= 2
  /\ ptr # NullPtr
  /\ blocks = << >>
  /\ arena.pos = 0
  /\ arena.committed > arena.page_size

(***************************************************************************)
(* Claims about the reader and the driver of the manim frontend.           *)
(***************************************************************************)
\* the cells of count records laid out from base, in field order
DecCells(mem, base, layout, size, count) ==
  [j \in 1..(count * Len(layout)) |->
     Load(mem, base + ((j - 1) \div Len(layout)) * size
                 + layout[((j - 1) % Len(layout)) + 1])]

\* a color-stop array of the vmo at v, through its count and its pointer
DecRgbas(mem, v, count_at, ptr_at) ==
  DecCells(mem, Load(mem, v + ptr_at), RgbaLayout, SizeofRgba,
           Load(mem, v + count_at))

\* the subpaths of the vmo at v from subpath j, each followed by its quads
RECURSIVE DecSubpaths(_, _, _)
DecSubpaths(mem, v, j) ==
  IF j >= Load(mem, v + VmoSubpathCount) THEN << >>
  ELSE LET sp == Load(mem, v + VmoSubpaths) + j * SizeofSubpath IN
       DecCells(mem, sp, SubpathLayout, SizeofSubpath, 1)
         \o DecCells(mem, Load(mem, sp + SubpathQuads), QuadLayout, SizeofQuad,
                     Load(mem, sp + SubpathQuadCount))
         \o DecSubpaths(mem, v, j + 1)

DecVmo(mem, v) ==
  DecCells(mem, v, VmoLayout, SizeofVmo, 1)
    \o DecRgbas(mem, v, VmoStrokeBgCount, VmoStrokeBgRgbas)
    \o DecRgbas(mem, v, VmoStrokeCount, VmoStrokeRgbas)
    \o DecRgbas(mem, v, VmoFillCount, VmoFillRgbas)
    \o DecSubpaths(mem, v, 0)

RECURSIVE DecVmos(_, _, _)
DecVmos(mem, frame, i) ==
  IF i >= frame.vmo_count THEN << >>
  ELSE DecVmo(mem, frame.vmos.off + i * SizeofVmo)
         \o DecVmos(mem, frame, i + 1)

\* the decoded frame written out again in the order of the file
DecFrame(mem, frame) ==
  << frame.magic, frame.vmo_count >> \o DecVmos(mem, frame, 0)

\* the cells of frame k of the input file
FrameCells(in, k) ==
  SubSeq(in.stream, FrameStart(in.frames, k) + 1,
         FrameStart(in.frames, k) + Len(EncFrame(in.frames[k])))

\* a frame has been returned to the driver and is being processed
FrameInHand == fe.pc \in {"begin", "vmo"}

\* C14: for a well-formed stream the n-th read_frame call returns 1 with the
\* n-th frame of the file: vmo_count is the encoded count, and the decoded
\* records, followed through their counts and pointers, are the cells of
\* that frame in stream order; the call after the last frame returns 0.
C14_WellFormedRoundTrip ==
  input.kind = "well-formed" =>
    /\ FrameInHand =>
         /\ fe.read_ret = 1
         /\ fe.nreads \in 1..Len(input.frames)
         /\ dec.frame.vmo_count = Len(input.frames[fe.nreads])
         /\ DecFrame(dec.mem, dec.frame) = FrameCells(input, fe.nreads)
    /\ fe.pc = "release" =>
         /\ fe.read_ret = 0
         /\ fe.nreads = Len(input.frames) + 1

C14_Witness ==
  /\ input.kind = "well-formed"
  /\ fe.pc = "begin"
  /\ fe.nreads = 2
  /\ input.frames[2] = << VmoB, VmoC >>
  /\ DecFrame(dec.mem, dec.frame) = FrameCells(input, 2)

\* the magic tag of a record inside a frame has been replaced
BadTagInFrame(in) == in.kind = "tag" /\ in.at > Len(EncHeader)

\* the file ends inside a frame
EndsInFrame(in) == in.kind = "short" /\ in.at > Len(EncHeader)

\* the magic tag of the header is not CTXT, or the file ends inside the header
BadHeader(in) ==
  \/ in.kind = "tag" /\ in.at = 1
  \/ in.kind = "short" /\ in.at < Len(EncHeader)

\* the three scratch arenas of manim_fe_driver
Scratch == {"frame", "string", "cairo"}

\* what manim_fe_driver returns after the loop, and for a file it cannot open
ReturnAfterLoop == 0

ReturnNoFile == 1

\* C15: when the magic tag of a record inside a frame differs from its
\* literal, the read_frame call that meets it returns 0 and consumes no cell
\* of the file after the bad tag.
C15_BadTagRejected ==
  (BadTagInFrame(input) /\ fe.pc # "crashed" /\ fe.fpos >= input.at) =>
    /\ fe.read_ret = 0
    /\ fe.fpos = input.at

\* C16: when the stream ends inside a frame, read_frame does not return 1
\* for it: every frame handed to the driver lies completely in the stream.
C16_TruncatedFrameRejected ==
  (EndsInFrame(input) /\ FrameInHand) =>
    /\ fe.nreads \in 1..Len(input.frames)
    /\ FrameStart(input.frames, fe.nreads)
         + Len(EncFrame(input.frames[fe.nreads])) <= Len(input.stream)

\* C17: once the file has been opened, manim_fe_driver returns the status of
\* a stream that ends at a frame boundary exactly when no frame of the input
\* is malformed; a malformed frame is reported by another status.
C17_MalformedFrameReported ==
  (fe.pc = "done" /\ fe.ret # ReturnNoFile) =>
    (fe.ret = ReturnAfterLoop <=>
       ~(BadTagInFrame(input) \/ EndsInFrame(input)))

\* C18: with a header whose magic is not CTXT, or that cannot be read in
\* full, no read_frame call is made, no svg record is produced, and the run
\* does not end with the status of success.
C18_BadHeaderAborts ==
  BadHeader(input) =>
    /\ fe.nreads = 0
    /\ fe.nrecords = 0
    /\ fe.pc = "done" => fe.ret # ReturnAfterLoop

\* C19: no NULL arena or NULL block is ever dereferenced, and a run in which
\* the creation of a scratch arena failed ends with a status that is neither
\* the one of success nor the one of a file that cannot be opened.
C19_AllocationFailureReported ==
  /\ fe.pc # "crashed"
  /\ (fe.pc \notin {"open", "alloc"}
        /\ \E a \in Scratch : arenas[a].status = "null") =>
       /\ fe.pc = "done"
       /\ fe.nreads = 0
       /\ fe.ret \notin {ReturnAfterLoop, ReturnNoFile}

\* C20: at the start of every iteration of the frame loop each scratch arena
\* that was created is at position 0, whichever way the loop over the vmos
\* went, and a scratch arena is released only after the read_frame call that
\* ended the loop.
C20_ScratchRewoundEachFrame ==
  \A a \in Scratch :
    /\ (fe.pc = "read" /\ arenas[a].status = "live") => arenas[a].pos = 0
    /\ arenas[a].status = "released" => (fe.pc = "done" /\ fe.read_ret = 0)

\* a frame of one vmo for which the renderer emitted no path has been
\* processed: the blob holds the frames header, the svg header and the closing
\* tag alone
C20_Witness ==
  /\ fe.pc = "read"
  /\ fe.frame_index = 1
  /\ dec.frame.vmo_count = 1
  /\ \E header_len \in SvgHeaderLens :
       arenas.blob.pos = SizeofSvgFrames + header_len + SvgCloseTagLen
  /\ \A a \in Scratch : arenas[a].status = "live" /\ arenas[a].pos = 0

\* C32: when manim_fe_driver returns after its loop, num_frames is the
\* number of read_frame calls that returned nonzero, frames[0..num_frames)
\* are the records of those frames in the order they were read, and the
\* records tile the blob: the first starts right after the svg_frames_t,
\* each next one where the one before ends, and the last ends at the
\* position of the blob arena.
C32_RecordsTileBlob ==
  (fe.pc = "done" /\ fe.ret = ReturnAfterLoop) =>
    /\ fe.num_frames = fe.nreads - 1
    /\ Len(fe.records) = fe.num_frames
    /\ \A k \in DOMAIN fe.records :
         fe.records[k].at = (k - 1) * SizeofSvgRecord
    /\ fe.records # << >> =>
         /\ fe.records[1].offset = fe.out.off + SizeofSvgFrames
         /\ fe.records[Len(fe.records)].offset
              + fe.records[Len(fe.records)].length = arenas.blob.pos
    /\ \A k \in 1..(Len(fe.records) - 1) :
         fe.records[k + 1].offset
           = fe.records[k].offset + fe.records[k].length

\* the driver has returned two records, one of a frame none of whose
\* objects gave a path and one of a frame with a path in it
C32_Witness ==
  /\ fe.pc = "done" /\ fe.ret = ReturnAfterLoop
  /\ fe.num_frames = 2
  /\ \E k \in DOMAIN fe.records : \E h \in SvgHeaderLens :
       fe.records[k].length = h + SvgCloseTagLen
  /\ \E k \in DOMAIN fe.records : \A h \in SvgHeaderLens :
       fe.records[k].length > h + SvgCloseTagLen

\* C33: for every finite input stream, as written, cut short or damaged,
\* the frame loop of manim_fe_driver terminates: after finitely many
\* read_frame calls one returns 0 and the driver returns.
C33_FrameLoopTerminates == <>(fe.pc = "done")

(***************************************************************************)
(* Claims about the ops gen_ir_driver emits.  An op is a record with the   *)
(* fields of ir_op_t: op, element_id, and the value of a SET_ATTR.         *)
(***************************************************************************)
\* the ids of the objects of a source frame
ObjIds(objs) == {objs[k].id : k \in DOMAIN objs}

\* the ops handed out while source frame t (from 1) was processed
OpsAt(t) ==
  SubSeq(irout.ops, (IF t = 1 THEN 0 ELSE ir.ends[t - 1]) + 1, ir.ends[t])

\* some op of the frame has this opcode and this element
Emits(t, opcode, id) ==
  \E k \in DOMAIN OpsAt(t) :
    OpsAt(t)[k].op = opcode /\ OpsAt(t)[k].element_id = id

\* the source frames gen_ir_driver is through with
Processed == 1..Len(ir.ends)

\* C21: an id that occurs in frame t and did not occur in frame t-1 (or t
\* is the first frame) gets an INS at frame t, followed by an op that sets
\* its attributes.
C21_InsertOnFirstSight ==
  ir.pc # "idle" =>
    \A t \in Processed : \A id \in ObjIds(svg.scene[t]) :
      (t = 1 \/ id \notin ObjIds(svg.scene[t - 1])) =>
        \E k \in DOMAIN OpsAt(t) :
          /\ OpsAt(t)[k].op = "INS" /\ OpsAt(t)[k].element_id = id
          /\ \E m \in DOMAIN OpsAt(t) :
               /\ m > k
               /\ OpsAt(t)[m].op = "SET_ATTR"
               /\ OpsAt(t)[m].element_id = id

\* C22: an id that occurred in frame t-1, and so is resident when frame t
\* is processed, and does not occur in frame t gets a DEL at frame t.
C22_DeleteOnAbsence ==
  ir.pc # "idle" =>
    \A t \in Processed \ {1} :
      \A id \in ObjIds(svg.scene[t - 1]) \ ObjIds(svg.scene[t]) :
        Emits(t, "DEL", id)

\* C23: an object with the same id and the same state in frames t-1 and t
\* is referenced by no op emitted at frame t.
C23_UnchangedEmitsNothing ==
  ir.pc # "idle" =>
    \A t \in Processed \ {1} : \A k \in DOMAIN svg.scene[t] :
      (\E m \in DOMAIN svg.scene[t - 1] :
         svg.scene[t - 1][m] = svg.scene[t][k]) =>
        \A n \in DOMAIN OpsAt(t) :
          OpsAt(t)[n].element_id # svg.scene[t][k].id

\* both objects of frame 1 are in frame 2 unchanged, their paths have been
\* handed to gen_path_ir and the driver has returned
C23_Witness ==
  /\ ir.pc = "done"
  /\ svg.num_frames >= 2
  /\ Len(svg.scene[1]) = 2
  /\ svg.scene[2] = svg.scene[1]
  /\ ir.svg_path # << >>

\* C24: when gen_ir_driver returns, *ir_op_frames has one frame record per
\* source frame, and every frame record holds at least one op (NOP_FRAME
\* where there is no other).
C24_OneIrFramePerSourceFrame ==
  ir.pc = "done" =>
    /\ irout.assigned
    /\ Len(irout.frames) = svg.num_frames
    /\ \A t \in DOMAIN irout.frames : irout.frames[t].num_ops >= 1

\* the canvas after one op: a set of <<id, state>>; INS adds the element
\* with no state, SET_ATTR gives it the state of the op, DEL removes it
ApplyOp(canvas, o) ==
  IF o.op = "INS" THEN canvas \cup {<< o.element_id, 0 >>}
  ELSE IF o.op = "DEL" THEN {e \in canvas : e[1] # o.element_id}
  ELSE {e \in canvas : e[1] # o.element_id}
         \cup {<< e[1], o.value >> : e \in {e \in canvas : e[1] = o.element_id}}

\* the canvas after the first n ops, from an empty canvas
RECURSIVE Replay(_, _)
Replay(ops, n) ==
  IF n = 0 THEN {} ELSE ApplyOp(Replay(ops, n - 1), ops[n])

\* C26: replaying the ops emitted up to the end of frame t, from an empty
\* canvas, gives the objects of source frame t, each id with its state.
C26_ReplayReproducesFrames ==
  ir.pc # "idle" =>
    \A t \in Processed :
      Replay(irout.ops, ir.ends[t])
        = {<< svg.scene[t][k].id, svg.scene[t][k].sig >> :
             k \in DOMAIN svg.scene[t]}

\* the position in the blob of svg_blob[j] of the frame being scanned
ScanAt == svg.frames[ir.i + 1].offset + ir.j + 1

\* the scan is at the '>' that ends the element it is tracking
AtPathEnd ==
  /\ ir.pc = "scan"
  /\ ir.j < svg.frames[ir.i + 1].length
  /\ ir.tracking
  /\ svg.blob[ScanAt] = ChGt

\* C31: at the '>' that ends an element that starts with <p or <P, what is
\* handed to gen_path_ir is the bytes from that '<' through this '>'
\* followed by a NUL, and the bytes copied lie in the frame's record
\* [offset, offset + length).
C31_PathCopiedExactly ==
  [][(AtPathEnd /\ ir'.pc = "scan") =>
       /\ ir'.svg_path
            = Append(SubSeq(svg.blob, ScanAt - ir.curr_path_len, ScanAt), 0)
       /\ ScanAt + ir.curr_path_len
            <= svg.frames[ir.i + 1].offset + svg.frames[ir.i + 1].length
     ]_vars

\* C35: ir_op_get_data(frames, f, i) is the address of the first ir_op_t
\* of frame f plus i times sizeof(ir_op_t): index 0 gives the first op of
\* the frame, consecutive indexes are sizeof(ir_op_t) bytes apart, and an
\* index below num_ops gives that op of the frame.
C35_IrOpAddress ==
  ir.pc = "got" =>
    ir.ret = irout.blob
               + (OpsBefore(irout.counts, ir.frame_num + 1) + ir.ir_op_index)
                   * SizeofIrOp

\* C36: while it draws a vmo, render_vmo reads only the entries 0 to
\* subpath_count - 1 of the vmo's subpaths and the entries 0 to
\* quad_count - 1 of the quads of the subpath it is drawing; the first and
\* last subpath it compares to decide whether to close the path are among
\* them in every pass j
C36_RenderReadsInBounds ==
  [][(fe.pc = "vmo" /\ fe'.pc = "vmo" /\ fe'.i = fe.i + 1) =>
       LET subpath_count == Load(dec.mem, VmoAt(fe.i) + VmoSubpathCount)
           subpaths == Load(dec.mem, VmoAt(fe.i) + VmoSubpaths)
       IN  \A j \in 0..(subpath_count - 1) :
             LET quad_count ==
                   Load(dec.mem, subpaths + j * SizeofSubpath
                                   + SubpathQuadCount)
             IN  /\ SubpathReads(subpath_count, j)
                      \subseteq 0..(subpath_count - 1)
                 /\ QuadReads(quad_count) \subseteq 0..(quad_count - 1)]_vars

\* C37: a driver that returns has released every arena it created for its own
\* use: when gen_ir_driver has returned, neither its scratch_arena nor its
\* svg_path_scratch_arena is still live
C37_ScratchArenasReleased ==
  ir.pc = "done" =>
    /\ ir.scratch.status # "live"
    /\ ir.path_arena.status # "live"

====
